---- MODULE Spec2Model ----
(***************************************************************************)
(* A model of the GrafanaLoki client (src/class/GrafanaLoki.class.ts):     *)
(* construction, the four operations (queryRange, queryRangeStream,        *)
(* labels, labelValues), the request each one builds, and the              *)
(* normalisation of the query-range response.                              *)
(*                                                                         *)
(* JavaScript values are tagged records: Undefined, Str(<<chars>>) and     *)
(* Num(n).  A string is the sequence of its characters, so that the        *)
(* conversions (number to string, duration to timestamp) are computed.     *)
(***************************************************************************)
EXTENDS Integers, Sequences, FiniteSets, TLC

VARIABLES env, ctor, client, pc, call, request, gets, data, ret

vars == <<env, ctor, client, pc, call, request, gets, data, ret>>

(***************************************************************************)
(* Bounds of the model.                                                    *)
(***************************************************************************)
\* most streams in one query-range response
MaxStreams == 2
\* most log lines in one query-range response, over all its streams
MaxLogs == 3

(***************************************************************************)
(* Values.                                                                 *)
(***************************************************************************)
Null == [type |-> "null"]
Undefined == [type |-> "undefined"]
Str(s) == [type |-> "string", s |-> s]
Num(n) == [type |-> "number", n |-> n]

IsStr(v) == v.type = "string"
IsNum(v) == v.type = "number"

\* JavaScript truthiness of undefined, a string or a (non-NaN) number, as
\* tested by `if (options.start)`
Truthy(v) ==
  CASE v.type = "undefined" -> FALSE
    [] v.type = "null" -> FALSE
    [] v.type = "string" -> v.s # <<>>
    [] v.type = "number" -> v.n # 0

\* left ?? right
Coalesce(left, right) ==
  IF left.type \in {"undefined", "null"} THEN right ELSE left

Ok(v) == [status |-> "ok", value |-> v, error |-> "none"]
Err(e) == [status |-> "error", value |-> Null, error |-> e]
Pending == [status |-> "pending", value |-> Null, error |-> "none"]

DigitChars == <<"0", "1", "2", "3", "4", "5", "6", "7", "8", "9">>
Digits == {DigitChars[i] : i \in 1..10}

DigitValue(c) == (CHOOSE i \in 1..10 : DigitChars[i] = c) - 1

RECURSIVE NatToStr(_)
\* Number.prototype.toString() / String(n) of a non-negative integer
NatToStr(n) ==
  IF n < 10 THEN <<DigitChars[n + 1]>>
  ELSE NatToStr(n \div 10) \o <<DigitChars[(n % 10) + 1]>>

RECURSIVE StrToNat(_)
StrToNat(s) ==
  IF s = <<>> THEN 0
  ELSE 10 * StrToNat(SubSeq(s, 1, Len(s) - 1)) + DigitValue(s[Len(s)])

IsNumeric(s) == s # <<>> /\ \A i \in 1..Len(s) : s[i] \in Digits

(***************************************************************************)
(* Duration/Timestamp utility (utils.durationToUnixTimestamp).  Time is    *)
(* counted in whole seconds; a nanosecond epoch is the seconds followed by *)
(* nine zeros.                                                             *)
(***************************************************************************)
UnitSeconds(u) ==
  CASE u = "s" -> 1
    [] u = "m" -> 60
    [] u = "h" -> 3600
    [] u = "d" -> 86400

Units == {"s", "m", "h", "d"}

NanoSuffix == <<"0", "0", "0", "0", "0", "0", "0", "0", "0">>

IsDuration(s) ==
  /\ Len(s) >= 2
  /\ s[Len(s)] \in Units
  /\ IsNumeric(SubSeq(s, 1, Len(s) - 1))

\* a start/end/since value that is neither a number nor a duration
Malformed(v) == IsStr(v) /\ ~IsNumeric(v.s) /\ ~IsDuration(v.s)

durationToUnixTimestamp(duration, now) ==
  CASE IsNum(duration) -> Ok(Str(NatToStr(duration.n)))
    [] IsStr(duration) /\ IsNumeric(duration.s) -> Ok(duration)
    [] IsStr(duration) /\ IsDuration(duration.s) ->
         LET n == StrToNat(SubSeq(duration.s, 1, Len(duration.s) - 1))
             u == duration.s[Len(duration.s)]
         IN  Ok(Str(NatToStr(now - n * UnitSeconds(u)) \o NanoSuffix))
    [] OTHER -> Err("InvalidDurationFormat")

(***************************************************************************)
(* Log parser capability (LogParserLike.executeOnLogs).  A parser maps an  *)
(* ordered sequence of raw lines to an ordered sequence of records, or     *)
(* throws.  Four parsers are supplied by callers of the model:             *)
(*   noop    - NoopLogParser, the default: the lines unchanged             *)
(*   dup     - every line expanded into two records                        *)
(*   header  - one header record, then the lines (depends on the whole     *)
(*             sequence it receives; adds a record to an empty sequence)   *)
(*   strict  - the lines unchanged, throws on a line it cannot parse       *)
(***************************************************************************)
Lines == {"a", "b"}
BadLine == "b"
HeaderRecord == "#header"
Parsers == {"noop", "dup", "header", "strict"}

Parsed(out) == [ok |-> TRUE, out |-> out, error |-> "none"]
ParseFailed == [ok |-> FALSE, out |-> <<>>, error |-> "ParseError"]

RECURSIVE Duplicate(_)
Duplicate(lines) ==
  IF lines = <<>> THEN <<>>
  ELSE <<Head(lines), Head(lines)>> \o Duplicate(Tail(lines))

executeOnLogs(parser, lines) ==
  CASE parser = "noop" -> Parsed(lines)
    [] parser = "dup" -> Parsed(Duplicate(lines))
    [] parser = "header" -> Parsed(<<HeaderRecord>> \o lines)
    [] parser = "strict" ->
         IF \E i \in 1..Len(lines) : lines[i] = BadLine
         THEN ParseFailed ELSE Parsed(lines)

(***************************************************************************)
(* Response normaliser (utils.inlineLogs, utils.queryRangeStreamTimeRange).*)
(* A query-range result is a sequence of streams                           *)
(*   [stream |-> labels, values |-> <<ts, line>> pairs].                   *)
(***************************************************************************)
TimeRange(start, end) == [type |-> "timerange", start |-> start, end |-> end]

RECURSIVE FlatValues(_)
\* result.flatMap((host) => host.values)
FlatValues(result) ==
  IF result = <<>> THEN <<>>
  ELSE Head(result).values \o FlatValues(Tail(result))

RECURSIVE InsertByTs(_, _)
\* v placed behind every entry whose timestamp is not greater (stable)
InsertByTs(v, sorted) ==
  IF sorted = <<>> THEN <<v>>
  ELSE IF Head(sorted)[1] <= v[1]
       THEN <<Head(sorted)>> \o InsertByTs(v, Tail(sorted))
       ELSE <<v>> \o sorted

RECURSIVE SortByTs(_)
SortByTs(values) ==
  IF values = <<>> THEN <<>>
  ELSE InsertByTs(values[Len(values)], SortByTs(SubSeq(values, 1, Len(values) - 1)))

SeqMin(S) == CHOOSE x \in S : \A y \in S : x <= y
SeqMax(S) == CHOOSE x \in S : \A y \in S : y <= x

ValuesTimeRange(values) ==
  LET ts == {values[i][1] : i \in 1..Len(values)}
  IN  IF ts = {} THEN Null ELSE TimeRange(SeqMin(ts), SeqMax(ts))

queryRangeStreamTimeRange(result) == ValuesTimeRange(FlatValues(result))

inlineLogs(result) ==
  LET flatLogs == SortByTs(FlatValues(result))
  IN  IF flatLogs = <<>> THEN Null
      ELSE [type |-> "inlined",
            logs |-> [i \in 1..Len(flatLogs) |-> flatLogs[i][2]],
            timerange |-> ValuesTimeRange(flatLogs)]

(***************************************************************************)
(* GrafanaLoki: constructor.                                               *)
(***************************************************************************)
ValidHref == "https://loki.example/"
InvalidHref == "not a url"
UrlString(href) == [type |-> "string", href |-> href]
UrlObject(href) == [type |-> "URL", href |-> href]

\* new URL(input): throws on a string that is no absolute URL
NewURL(href) == IF href = ValidHref THEN Ok(UrlObject(href)) ELSE Err("InvalidURL")

\* GrafanaLoki without the `typeof this.apiToken === "undefined"` test
GrafanaLoki_unchecked(options, envToken) ==
  LET apiToken == Coalesce(options.apiToken, envToken)
      url == IF options.remoteApiURL.type = "string"
             THEN NewURL(options.remoteApiURL.href)
             ELSE Ok(options.remoteApiURL)
  IN  IF url.status = "error" THEN url
      ELSE Ok([type |-> "client", apiToken |-> apiToken, remoteApiURL |-> url.value])

\* the constructor's outcome: the fields of the new client, or the error thrown
GrafanaLoki(options, envToken) ==
  LET apiToken == Coalesce(options.apiToken, envToken)
      url == IF options.remoteApiURL.type = "string"
             THEN NewURL(options.remoteApiURL.href)
             ELSE Ok(options.remoteApiURL)
  IN  IF apiToken.type = "undefined" THEN Err("MissingCredential")
      ELSE IF url.status = "error" THEN url
      ELSE Ok([type |-> "client", apiToken |-> apiToken, remoteApiURL |-> url.value])

\* get httpOptions()
httpOptions(c) == [authorization |-> <<"Bearer", c.apiToken>>]

(***************************************************************************)
(* GrafanaLoki: request construction.                                      *)
(***************************************************************************)
DefaultLimit == 100

QueryRangePath == <<"loki/api/v1/query_range">>
LabelsPath == <<"loki/api/v1/labels">>
LabelValuesPath(label) == <<"loki/api/v1/label", label, "values">>

\* TimeParams with `end` set verbatim, as `since` is
TimeParams_endVerbatim(options, now) ==
  LET start == IF Truthy(options.start)
               THEN durationToUnixTimestamp(options.start, now) ELSE Ok(Undefined)
      end == IF Truthy(options.end) THEN options.end ELSE Undefined
      since == IF Truthy(options.since) THEN options.since ELSE Undefined
  IN  IF start.status = "error" THEN start
      ELSE Ok([start |-> start.value, end |-> end, since |-> since])

\* the three `if (options.x) uri.searchParams.set(...)` statements shared by
\* #fetchQueryRange, labels and labelValues; a duration that does not convert
\* throws before the request exists
TimeParams(options, now) ==
  LET start == IF Truthy(options.start)
               THEN durationToUnixTimestamp(options.start, now) ELSE Ok(Undefined)
      end == IF Truthy(options.end)
             THEN durationToUnixTimestamp(options.end, now) ELSE Ok(Undefined)
      since == IF Truthy(options.since) THEN options.since ELSE Undefined
  IN  IF start.status = "error" THEN start
      ELSE IF end.status = "error" THEN end
      ELSE Ok([start |-> start.value, end |-> end.value, since |-> since])

Request(c, path, query, limit, time) ==
  [type |-> "request", base |-> c.remoteApiURL.href, path |-> path,
   query |-> query, limit |-> limit,
   start |-> time.start, end |-> time.end, since |-> time.since,
   headers |-> httpOptions(c)]

\* #fetchQueryRange up to the call of httpie.get
fetchQueryRange(c, logQL, options, now) ==
  LET limit == IF options.limit = Undefined THEN DefaultLimit ELSE options.limit.n
      time == TimeParams(options, now)
  IN  IF time.status = "error" THEN time
      ELSE Ok(Request(c, QueryRangePath, Str(logQL), Str(NatToStr(limit)), time.value))

\* labels up to the call of httpie.get
labelsRequest(c, options, now) ==
  LET time == TimeParams(options, now)
  IN  IF time.status = "error" THEN time
      ELSE Ok(Request(c, LabelsPath, Undefined, Undefined, time.value))

\* labelValues up to the call of httpie.get
labelValuesRequest(c, label, options, now) ==
  LET time == TimeParams(options, now)
      query == IF Truthy(options.query) THEN options.query ELSE Undefined
  IN  IF time.status = "error" THEN time
      ELSE Ok(Request(c, LabelValuesPath(label), query, Undefined, time.value))

(***************************************************************************)
(* GrafanaLoki: the operations after the response has arrived.             *)
(***************************************************************************)
RECURSIVE FlatMapParse(_, _)
\* values.flatMap(([, log]) => parser.executeOnLogs([log]))
FlatMapParse(parser, values) ==
  IF values = <<>> THEN Parsed(<<>>)
  ELSE LET first == executeOnLogs(parser, <<Head(values)[2]>>)
           rest == FlatMapParse(parser, Tail(values))
       IN  IF ~first.ok THEN first
           ELSE IF ~rest.ok THEN rest
           ELSE Parsed(first.out \o rest.out)

\* queryRangeStreamResult taking the time range of the first stream only
queryRangeStreamResult_firstRange(result, parser) ==
  LET values == [i \in 1..Len(result) |-> FlatMapParse(parser, result[i].values)]
  IN  IF \E i \in 1..Len(result) : ~values[i].ok THEN Err("ParseError")
      ELSE Ok([logs |-> [i \in 1..Len(result) |->
                           [stream |-> result[i].stream, values |-> values[i].out]],
               timerange |-> IF result = <<>> THEN Null
                             ELSE ValuesTimeRange(result[1].values)])

\* queryRangeStreamResult leaving out the streams that have no values
queryRangeStreamResult_dropEmpty(result, parser) ==
  LET kept == SelectSeq(result, LAMBDA r : r.values # <<>>)
      values == [i \in 1..Len(kept) |-> FlatMapParse(parser, kept[i].values)]
  IN  IF \E i \in 1..Len(kept) : ~values[i].ok THEN Err("ParseError")
      ELSE Ok([logs |-> [i \in 1..Len(kept) |->
                           [stream |-> kept[i].stream, values |-> values[i].out]],
               timerange |-> queryRangeStreamTimeRange(result)])

\* queryRangeStreamResult handing each stream's lines to the parser at once
queryRangeStreamResult_wholeStream(result, parser) ==
  LET values == [i \in 1..Len(result) |->
                   executeOnLogs(parser, [j \in 1..Len(result[i].values) |->
                                            result[i].values[j][2]])]
  IN  IF \E i \in 1..Len(result) : ~values[i].ok THEN Err("ParseError")
      ELSE Ok([logs |-> [i \in 1..Len(result) |->
                           [stream |-> result[i].stream, values |-> values[i].out]],
               timerange |-> queryRangeStreamTimeRange(result)])

\* queryRangeStreamResult catching the parser's error per stream
queryRangeStreamResult_partial(result, parser) ==
  LET values == [i \in 1..Len(result) |-> FlatMapParse(parser, result[i].values)]
  IN  Ok([logs |-> [i \in 1..Len(result) |->
                      [stream |-> result[i].stream, values |-> values[i].out]],
          timerange |-> queryRangeStreamTimeRange(result)])

\* the value queryRangeStream returns for a decoded result, or the error
queryRangeStreamResult(result, parser) ==
  LET values == [i \in 1..Len(result) |-> FlatMapParse(parser, result[i].values)]
  IN  IF \E i \in 1..Len(result) : ~values[i].ok THEN Err("ParseError")
      ELSE Ok([logs |-> [i \in 1..Len(result) |->
                           [stream |-> result[i].stream, values |-> values[i].out]],
               timerange |-> queryRangeStreamTimeRange(result)])

\* queryRangeResult returning the merged lines without the parser
queryRangeResult_unparsed(result, parser) ==
  LET inlinedLogs == inlineLogs(result)
  IN  IF inlinedLogs = Null THEN Ok([logs |-> <<>>, timerange |-> Null])
      ELSE Ok([logs |-> inlinedLogs.logs, timerange |-> inlinedLogs.timerange])

\* queryRangeResult without the early return for no logs
queryRangeResult_parseEmpty(result, parser) ==
  LET inlinedLogs == inlineLogs(result)
      logs == IF inlinedLogs = Null THEN <<>> ELSE inlinedLogs.logs
      parsed == executeOnLogs(parser, logs)
  IN  IF ~parsed.ok THEN Err(parsed.error)
      ELSE Ok([logs |-> parsed.out,
               timerange |-> IF inlinedLogs = Null THEN Null ELSE inlinedLogs.timerange])

\* the value queryRange returns for a decoded result, or the error
queryRangeResult(result, parser) ==
  LET inlinedLogs == inlineLogs(result)
  IN  IF inlinedLogs = Null THEN Ok([logs |-> <<>>, timerange |-> Null])
      ELSE LET parsed == executeOnLogs(parser, inlinedLogs.logs)
           IN  IF ~parsed.ok THEN Err(parsed.error)
               ELSE Ok([logs |-> parsed.out, timerange |-> inlinedLogs.timerange])

\* const { parser = new NoopLogParser<T>() } = options
ParserOf(options) == IF options.parser = "unset" THEN "noop" ELSE options.parser

(***************************************************************************)
(* Inputs.                                                                 *)
(***************************************************************************)
Timestamps == {1, 2, 3}
Pairs == Timestamps \X Lines
LogQL == <<"{", "}">>
LabelNames == {"app", "env"}
Clock == {100000, 200000}
HttpErrors == {"NetworkError", "HttpError", "DecodeError"}

\* the label sets of k streams: stream i is app i, or the streams in reverse
LabelOrders(k) == {[i \in 1..k |-> i], [i \in 1..k |-> k + 1 - i]}

\* the ways of cutting n values into k consecutive streams
Cuts(k, n) ==
  {c \in [0..k -> 0..n] :
     /\ c[0] = 0
     /\ c[k] = n
     /\ \A i \in 1..k : c[i - 1] <= c[i]}

\* the query-range result of k streams that cuts the values f at c and
\* labels the streams by lab
Result(k, f, c, lab) ==
  [i \in 1..k |->
     [stream |-> [app |-> lab[i]], values |-> SubSeq(f, c[i - 1] + 1, c[i])]]

HttpFailures == {[kind |-> "error", error |-> e] : e \in HttpErrors}
LabelResponses ==
  HttpFailures \cup
  {[kind |-> "ok", body |-> b] : b \in {<<>>, <<"app">>, <<"app", "env">>}}

\* start and end: absent, a nanosecond epoch, a numeric string, a duration, malformed
TimeValues ==
  {Undefined, Num(0), Num(5), Str(<<>>), Str(<<"7">>), Str(<<"2", "h">>),
   Str(<<"a", "b", "c">>), Str(<<"2", "x">>)}
SinceValues == {Undefined, Str(<<>>), Str(<<"1", "h">>), Str(<<"a", "b", "c">>)}

Options(limit, start, end, since, query, parser) ==
  [limit |-> limit, start |-> start, end |-> end, since |-> since,
   query |-> query, parser |-> parser]

\* options that set only the parser
ParserOptions ==
  {Options(Undefined, Undefined, Undefined, Undefined, Undefined, p) : p \in Parsers}
\* options that set the time window
TimeOptions ==
  {Options(Undefined, s, e, si, Undefined, "unset") :
     s \in TimeValues, e \in TimeValues, si \in SinceValues}

TokenArgs == {Undefined, Str(<<>>), Str(<<"a", "r", "g">>)}
EnvTokens == {Undefined, Str(<<>>), Str(<<"e", "n", "v">>)}
UrlArgs == {UrlString(ValidHref), UrlString(InvalidHref), UrlObject(ValidHref)}

(***************************************************************************)
(* State.                                                                  *)
(*   env      process.env.GRAFANA_API_TOKEN                                *)
(*   ctor     the last construction: its options and the error it threw    *)
(*   client   the fields of the constructed client, Null before            *)
(*   pc       the invocation in flight: "idle", "awaiting" (suspended in   *)
(*            `await httpie.get`), "done" (settled, not yet consumed)      *)
(*   call     the operation invoked and its arguments                      *)
(*   request  the GET the invocation issued, Null if none                  *)
(*   gets     the number of GETs the invocation issued                     *)
(*   data     the response the GET settled with                            *)
(*   ret      what the invocation's promise settled with                   *)
(***************************************************************************)
Idle ==
  /\ pc = "idle"
  /\ call = Null
  /\ request = Null
  /\ gets = 0
  /\ data = Null
  /\ ret = Pending

\* new GrafanaLoki({ apiToken, remoteApiURL })
Construct ==
  /\ client = Null
  /\ \E apiToken \in TokenArgs, remoteApiURL \in UrlArgs :
       LET options == [apiToken |-> apiToken, remoteApiURL |-> remoteApiURL]
           made == GrafanaLoki(options, env)
       IN  /\ ctor' = [type |-> "ctor", options |-> options, error |-> made.error]
           /\ client' = made.value
  /\ UNCHANGED <<env, pc, call, request, gets, data, ret>>

\* an invocation up to its `await`: the request is built and the GET issued,
\* or building the request threw and the promise is rejected
Invoke(op, label, options, now, built) ==
  /\ client # Null
  /\ pc = "idle"
  /\ call' = [type |-> "call", op |-> op, label |-> label, options |-> options, now |-> now]
  /\ IF built.status = "ok"
     THEN /\ request' = built.value
          /\ gets' = gets + 1
          /\ pc' = "awaiting"
          /\ ret' = Pending
     ELSE /\ request' = Null
          /\ gets' = gets
          /\ pc' = "done"
          /\ ret' = built
  /\ UNCHANGED <<env, ctor, client, data>>

\* the rest of an invocation, once the GET has settled with response
Resume(op, response, result) ==
  /\ pc = "awaiting"
  /\ call.op = op
  /\ data' = response
  /\ ret' = result
  /\ pc' = "done"
  /\ UNCHANGED <<env, ctor, client, call, request, gets>>

queryRange(AllOptions) ==
  /\ pc = "idle"
  /\ \E options \in AllOptions, now \in Clock :
       Invoke("queryRange", "", options, now,
              fetchQueryRange(client, LogQL, options, now))

queryRangeContinue(response) ==
  Resume("queryRange", response,
         IF response.kind = "error" THEN Err(response.error)
         ELSE queryRangeResult(response.body, ParserOf(call.options)))

\* the GET settles: with a failure, or with a result of at most maxStreams
\* streams (of distinct label sets) and maxLogs lines
queryRangeResume(maxStreams, maxLogs) ==
  /\ pc = "awaiting"
  /\ call.op = "queryRange"
  /\ \/ \E response \in HttpFailures : queryRangeContinue(response)
     \/ \E k \in 0..maxStreams, n \in 0..maxLogs :
          /\ k = 0 => n = 0
          /\ \E f \in [1..n -> Pairs], c \in Cuts(k, n), lab \in LabelOrders(k) :
               queryRangeContinue([kind |-> "ok", body |-> Result(k, f, c, lab)])

queryRangeStream(AllOptions) ==
  /\ pc = "idle"
  /\ \E options \in AllOptions, now \in Clock :
       Invoke("queryRangeStream", "", options, now,
              fetchQueryRange(client, LogQL, options, now))

queryRangeStreamContinue(response) ==
  Resume("queryRangeStream", response,
         IF response.kind = "error" THEN Err(response.error)
         ELSE queryRangeStreamResult(response.body, ParserOf(call.options)))

queryRangeStreamResume(maxStreams, maxLogs) ==
  /\ pc = "awaiting"
  /\ call.op = "queryRangeStream"
  /\ \/ \E response \in HttpFailures : queryRangeStreamContinue(response)
     \/ \E k \in 0..maxStreams, n \in 0..maxLogs :
          /\ k = 0 => n = 0
          /\ \E f \in [1..n -> Pairs], c \in Cuts(k, n), lab \in LabelOrders(k) :
               queryRangeStreamContinue([kind |-> "ok", body |-> Result(k, f, c, lab)])

labels(AllOptions) ==
  /\ pc = "idle"
  /\ \E options \in AllOptions, now \in Clock :
       Invoke("labels", "", options, now, labelsRequest(client, options, now))

labelsResume ==
  /\ pc = "awaiting"
  /\ call.op = "labels"
  /\ \E response \in LabelResponses :
       Resume("labels", response,
              IF response.kind = "error" THEN Err(response.error)
              ELSE Ok(response.body))

labelValues(AllOptions) ==
  /\ pc = "idle"
  /\ \E options \in AllOptions, now \in Clock, label \in LabelNames :
       Invoke("labelValues", label, options, now,
              labelValuesRequest(client, label, options, now))

labelValuesResume ==
  /\ pc = "awaiting"
  /\ call.op = "labelValues"
  /\ \E response \in LabelResponses :
       Resume("labelValues", response,
              IF response.kind = "error" THEN Err(response.error)
              ELSE Ok(response.body))

\* the caller consumes the settled promise; the next invocation starts afresh
Return ==
  /\ pc = "done"
  /\ pc' = "idle"
  /\ call' = Null
  /\ request' = Null
  /\ gets' = 0
  /\ data' = Null
  /\ ret' = Pending
  /\ UNCHANGED <<env, ctor, client>>

(***************************************************************************)
(* Spec: a constructed client answering queries; every parser, every       *)
(* response within the bounds.                                             *)
(***************************************************************************)
DefaultCtor == [apiToken |-> Str(<<"a", "r", "g">>), remoteApiURL |-> UrlString(ValidHref)]

Init ==
  /\ env = Undefined
  /\ ctor = [type |-> "ctor", options |-> DefaultCtor, error |-> "none"]
  /\ client = GrafanaLoki(DefaultCtor, Undefined).value
  /\ Idle

Next ==
  \/ queryRange(ParserOptions)
  \/ queryRangeResume(MaxStreams, MaxLogs)
  \/ queryRangeStream(ParserOptions)
  \/ queryRangeStreamResume(MaxStreams, MaxLogs)
  \/ labels(ParserOptions)
  \/ labelsResume
  \/ labelValues(ParserOptions)
  \/ labelValuesResume
  \/ Return

Spec == Init /\ [][Next]_vars

(***************************************************************************)
(* SpecRequest: a constructed client; the request each operation builds    *)
(* from every time window.                                                 *)
(***************************************************************************)
NextRequest ==
  \/ queryRange(TimeOptions)
  \/ queryRangeResume(1, 1)
  \/ queryRangeStream(TimeOptions)
  \/ queryRangeStreamResume(1, 1)
  \/ labels(TimeOptions)
  \/ labelsResume
  \/ labelValues(TimeOptions)
  \/ labelValuesResume
  \/ Return

SpecRequest == Init /\ [][NextRequest]_vars

(***************************************************************************)
(* SpecConstruct: construction from every token argument and environment,  *)
(* and the label listing of the client constructed.                        *)
(***************************************************************************)
InitConstruct ==
  /\ env \in EnvTokens
  /\ ctor = Null
  /\ client = Null
  /\ Idle

NextConstruct ==
  \/ Construct
  \/ labels(ParserOptions)
  \/ labelsResume
  \/ Return

SpecConstruct == InitConstruct /\ [][NextConstruct]_vars

(***************************************************************************)
(* Vocabulary of the properties.                                           *)
(***************************************************************************)
\* the invocation of op has settled
Done(op) == pc = "done" /\ call.op = op
\* the invocation of op has settled after its GET succeeded
Answered(op) == Done(op) /\ data # Null /\ data.kind = "ok"
\* the invocation of op returned a value
Returned(op) == Answered(op) /\ ret.status = "ok"

LinesOf(values) == [i \in 1..Len(values) |-> values[i][2]]
TimestampsOf(values) == [i \in 1..Len(values) |-> values[i][1]]

Count(x, seq) == Cardinality({i \in 1..Len(seq) : seq[i] = x})

\* m holds the values of flat, each as often, in ascending order of timestamp
IsSortedMergeOf(m, flat) ==
  /\ Len(m) = Len(flat)
  /\ \A i \in 1..Len(flat) : Count(flat[i], m) = Count(flat[i], flat)
  /\ \A i \in 1..(Len(m) - 1) : m[i][1] <= m[i + 1][1]

\* the merge that keeps values of equal timestamp in their order of arrival
ArrivalMerge(flat) ==
  LET n == Len(flat)
      Rank(i) == Cardinality({j \in 1..n :
                   \/ flat[j][1] < flat[i][1]
                   \/ flat[j][1] = flat[i][1] /\ j <= i})
  IN  [r \in 1..n |-> flat[CHOOSE i \in 1..n : Rank(i) = r]]

\* logs is what parser makes of some ascending merge of flat
ParsedMerge(logs, parser, flat) ==
  \/ /\ IsSortedMergeOf(ArrivalMerge(flat), flat)
     /\ logs = executeOnLogs(parser, LinesOf(ArrivalMerge(flat))).out
  \/ \E m \in [1..Len(flat) -> {flat[i] : i \in 1..Len(flat)}] :
       /\ IsSortedMergeOf(m, flat)
       /\ logs = executeOnLogs(parser, LinesOf(m)).out

\* all timestamps of a result
AllTimestamps(result) ==
  UNION {{result[i].values[j][1] : j \in 1..Len(result[i].values)} :
           i \in 1..Len(result)}

\* {start: the least timestamp, end: the greatest}, null without a timestamp
Covered(result) ==
  LET T == AllTimestamps(result)
  IN  IF T = {} THEN Null
      ELSE TimeRange(CHOOSE lo \in T : \A t \in T : lo <= t,
                     CHOOSE hi \in T : \A t \in T : t <= hi)

TheParser == ParserOf(call.options)

(***************************************************************************)
(* Construction (SpecConstruct).                                           *)
(***************************************************************************)
\* C1: a construction with no apiToken argument and no GRAFANA_API_TOKEN
\* fails with MissingCredential and leaves no client, and without a client
\* no request exists and no GET has been issued.
C1_MissingCredential ==
  /\ (ctor # Null /\ ctor.options.apiToken = Undefined /\ env = Undefined)
       => (ctor.error = "MissingCredential" /\ client = Null)
  /\ client = Null => (pc = "idle" /\ request = Null /\ gets = 0)

C1_Witness ==
  /\ ctor # Null
  /\ ctor.options.apiToken = Undefined
  /\ env = Undefined
  /\ ctor.error = "MissingCredential"

\* C2: every constructed client holds a non-empty string token, the explicit
\* argument when one was given and otherwise the environment value.
C2_NonEmptyToken ==
  client # Null =>
    /\ IsStr(client.apiToken)
    /\ client.apiToken.s # <<>>
    /\ client.apiToken = IF ctor.options.apiToken # Undefined
                         THEN ctor.options.apiToken ELSE env

(***************************************************************************)
(* Normalisation (Spec).                                                   *)
(***************************************************************************)
\* C3 as stated: for every response, the logs queryRange returns are the
\* parser applied to the lines of all streams merged in ascending order of
\* timestamp.
C3_ParsedMergeAlways ==
  Returned("queryRange") =>
    ParsedMerge(ret.value.logs, TheParser, FlatValues(data.body))

\* C3 as amended: for every response with at least one log line, the logs
\* queryRange returns are the parser applied to the lines of all streams
\* merged in ascending order of timestamp; for a response without a log line
\* the logs are empty and the parser is not applied.
C3_ParsedMerge ==
  Returned("queryRange") =>
    IF FlatValues(data.body) = <<>>
    THEN ret.value.logs = <<>>
    ELSE ParsedMerge(ret.value.logs, TheParser, FlatValues(data.body))

\* two streams with timestamps [1, 3] and [2] yield the lines of 1, 2, 3
C3_Witness ==
  /\ Returned("queryRange")
  /\ TheParser = "noop"
  /\ Len(data.body) = 2
  /\ data.body[1].values = <<<<1, "a">>, <<3, "a">>>>
  /\ data.body[2].values = <<<<2, "b">>>>
  /\ ret.value.logs = <<"a", "b", "a">>

\* C4: queryRange on a response with zero streams returns exactly
\* {logs: [], timerange: null}, whatever the parser.
C4_EmptyResult ==
  (Answered("queryRange") /\ data.body = <<>>)
    => ret = Ok([logs |-> <<>>, timerange |-> Null])

C4_Witness ==
  /\ Answered("queryRange")
  /\ data.body = <<>>
  /\ TheParser = "header"
  /\ ret = Ok([logs |-> <<>>, timerange |-> Null])

\* C5: queryRange and queryRangeStream return the same timerange for a
\* response: the least and the greatest of the unparsed timestamps of all
\* streams, whatever the parser, and null when there is no timestamp.
C5_TimeRange ==
  (Returned("queryRange") \/ Returned("queryRangeStream"))
    => ret.value.timerange = Covered(data.body)

\* the least timestamp is in the second stream, the greatest in the first,
\* and the parser adds records
C5_Witness ==
  /\ Returned("queryRangeStream")
  /\ TheParser = "header"
  /\ Len(data.body) = 2
  /\ TimestampsOf(data.body[1].values) = <<3, 2>>
  /\ TimestampsOf(data.body[2].values) = <<1>>
  /\ ret.value.timerange = TimeRange(1, 3)

\* C6: queryRangeStream returns one entry per stream of the response, in the
\* order of the response, each with its stream's label set; a stream without
\* lines has an entry with no values; the records an entry holds come from
\* the lines of its own stream.
C6_Grouping ==
  Returned("queryRangeStream") =>
    /\ Len(ret.value.logs) = Len(data.body)
    /\ \A i \in 1..Len(data.body) :
         /\ ret.value.logs[i].stream = data.body[i].stream
         /\ data.body[i].values = <<>> => ret.value.logs[i].values = <<>>
         /\ \A j \in 1..Len(ret.value.logs[i].values) :
              \/ ret.value.logs[i].values[j] = HeaderRecord
              \/ \E l \in 1..Len(data.body[i].values) :
                   ret.value.logs[i].values[j] = data.body[i].values[l][2]

C6_Witness ==
  /\ Returned("queryRangeStream")
  /\ Len(data.body) = 2
  /\ data.body[1].values = <<>>
  /\ data.body[2].values = <<<<2, "a">>, <<1, "b">>>>
  /\ data.body[1].stream = [app |-> 2]
  /\ ret.value.logs[1] = [stream |-> [app |-> 2], values |-> <<>>]
  /\ ret.value.logs[2] = [stream |-> [app |-> 1], values |-> <<"a", "b">>]

\* C7 as stated: the values of each stream queryRangeStream returns are the
\* parser applied to the sequence of that stream's lines.
C7_ParsedPerStream ==
  Returned("queryRangeStream") =>
    \A i \in 1..Len(data.body) :
      ret.value.logs[i].values =
        executeOnLogs(TheParser, LinesOf(data.body[i].values)).out

\* the records the parser makes of the single line at position j of values
OfLine(parser, values, j) == executeOnLogs(parser, <<values[j][2]>>).out

RECURSIVE Offset(_, _, _)
\* the number of records the parser makes of the lines before position j
Offset(parser, values, j) ==
  IF j = 1 THEN 0
  ELSE Offset(parser, values, j - 1) + Len(OfLine(parser, values, j - 1))

\* C7 as amended: the values of each stream queryRangeStream returns are, in
\* line order, the records the parser makes of each line of that stream handed
\* to it alone (executeOnLogs([line])); a parser that duplicates each line
\* yields twice as many values as the stream has lines.
C7_ParsedPerLine ==
  Returned("queryRangeStream") =>
    \A i \in 1..Len(data.body) :
      LET raw == data.body[i].values
          out == ret.value.logs[i].values
      IN  /\ Len(out) = Offset(TheParser, raw, Len(raw) + 1)
          /\ \A j \in 1..Len(raw) :
               \A m \in 1..Len(OfLine(TheParser, raw, j)) :
                 out[Offset(TheParser, raw, j) + m] = OfLine(TheParser, raw, j)[m]
          /\ TheParser = "dup" => Len(out) = 2 * Len(raw)

C7_Witness ==
  /\ Returned("queryRangeStream")
  /\ TheParser = "dup"
  /\ Len(data.body) = 1
  /\ data.body[1].values = <<<<1, "a">>, <<2, "b">>>>
  /\ ret.value.logs[1].values = <<"a", "a", "b", "b">>

\* the parser throws on a line of the response
ParserFails ==
  /\ TheParser = "strict"
  /\ \E i \in 1..Len(FlatValues(data.body)) : FlatValues(data.body)[i][2] = BadLine

\* C10: an invocation issues at most one GET; when the GET fails the
\* invocation fails with that error, when the parser fails on a line of a
\* stream it fails with the parser's error, and a failed invocation returns
\* no value; the client's token and base URL stay as constructed.
C10_FailWhole ==
  /\ gets <= 1
  /\ pc = "awaiting" => (gets = 1 /\ ret = Pending)
  /\ (pc = "done" /\ data # Null /\ data.kind = "error")
       => (ret = Err(data.error) /\ gets = 1)
  /\ ((Answered("queryRange") \/ Answered("queryRangeStream")) /\ ParserFails)
       => ret = Err("ParseError")
  /\ ret.status = "error" => ret.value = Null
  /\ client = [type |-> "client", apiToken |-> DefaultCtor.apiToken,
               remoteApiURL |-> UrlObject(ValidHref)]

\* the parser fails on the last line of the second stream
C10_Witness ==
  /\ Answered("queryRangeStream")
  /\ ParserFails
  /\ Len(data.body) = 2
  /\ LinesOf(data.body[1].values) = <<"a">>
  /\ LinesOf(data.body[2].values) = <<"a", "b">>
  /\ ret = Err("ParseError")
  /\ gets = 1

(***************************************************************************)
(* Request construction (SpecRequest).                                     *)
(***************************************************************************)
\* a start or end the operations accept: absent, a nanosecond epoch, a
\* numeric string or a duration
Admissible(v) == v = Undefined \/ IsNum(v) \/ (IsStr(v) /\ ~Malformed(v))
AdmissibleSince(v) == v = Undefined \/ (IsStr(v) /\ IsDuration(v.s))

\* param is absent when the option is, and the option's timestamp otherwise
CarriesTime(param, option) ==
  IF option = Undefined THEN param = Undefined
  ELSE param = durationToUnixTimestamp(option, call.now).value

\* C8: for each operation and admissible options, the request carries start
\* (end) exactly when the option is present, with the Duration Utility's
\* result for it, and since exactly when it is present, verbatim.
C8_CarriesOptions ==
  (/\ call # Null
   /\ Admissible(call.options.start)
   /\ Admissible(call.options.end)
   /\ AdmissibleSince(call.options.since))
    => /\ request # Null
       /\ CarriesTime(request.start, call.options.start)
       /\ CarriesTime(request.end, call.options.end)
       /\ request.since = call.options.since

Rejected(v) == Malformed(v) /\ v.s # <<>>

====
